---- MODULE Spec2Model ----
(***************************************************************************)
(* Model of lib/nodes.py of ffmap-backend: the node collection (a Python   *)
(* dict, kept with its insertion order) and the operations that import     *)
(* nodeinfo, statistics and vis data into it and prune it.                 *)
(*                                                                         *)
(* Python values are modelled as follows.                                  *)
(*   dict       a function whose DOMAIN is the set of keys present         *)
(*   nodes      the function nodes plus the sequence order (insertion      *)
(*              order of the dict, which build_mac_table iterates)         *)
(*   list of addresses   a set (no operation reads order or multiplicity)  *)
(*   datetime   [day, sec, us]  (day number, second of day, microsecond)   *)
(*   isoformat string    <<day, sec>> or <<day, sec, us>>: the text has a  *)
(*              fractional part exactly when us # 0                        *)
(*   exception  the err field of an operation's result; the collection     *)
(*              keeps whatever was written before the raise                *)
(***************************************************************************)
EXTENDS Integers, Sequences, FiniteSets, TLC

VARIABLES nodes, order, last, steps

vars == <<nodes, order, last, steps>>

\* ---------------------------------------------------------------- bounds
\* longest input sequence (documents, vis records) handed to one call
MaxDocs == 2
\* largest age threshold handed to prune_nodes
MaxDays == 1
\* number of operations in one run
MaxSteps == 4

\* ------------------------------------------------------- dict primitives
EmptyDict == [k \in {} |-> 0]

Has(d, k) == k \in DOMAIN d

\* d[k] = v
SetKey(d, k, v) == [x \in DOMAIN d \cup {k} |-> IF x = k THEN v ELSE d[x]]

\* del d[k]
DelKey(d, k) == [x \in DOMAIN d \ {k} |-> d[x]]

\* d.setdefault(k, v)
SetDefault(d, k, v) == IF Has(d, k) THEN d ELSE SetKey(d, k, v)

\* the sequence s without the element e
RECURSIVE Without(_, _)
Without(s, e) ==
    IF s = <<>> THEN <<>>
    ELSE IF Head(s) = e THEN Without(Tail(s), e)
    ELSE <<Head(s)>> \o Without(Tail(s), e)

\* sequences over S of length at most n
SeqUpTo(S, n) == UNION {[1..k -> S] : k \in 0..n}

\* ------------------------------------------------------------ time
\* datetime.isoformat(): the fractional part is printed only when us # 0
IsoFormat(t) == IF t.us = 0 THEN <<t.day, t.sec>> ELSE <<t.day, t.sec, t.us>>

\* datetime.strptime(s, '%Y-%m-%dT%H:%M:%S'): a text with a fractional part
\* leaves unconverted data and raises ValueError
StrptimeOk(s) == Len(s) = 2

Strptime(s) == [day |-> s[1], sec |-> s[2], us |-> 0]

\* (a - b).days: timedelta normalises to 0 <= seconds < 86400 and
\* 0 <= microseconds < 10^6, so days is the floor of the difference
DeltaDays(a, b) ==
    LET dus == a.us - b.us
        ds  == (a.sec - b.sec) - (IF dus < 0 THEN 1 ELSE 0)
    IN  (a.day - b.day) - (IF ds < 0 THEN 1 ELSE 0)

\* ------------------------------------------------------------ inputs
NodeIds == {"n1", "n2"}

\* injected current times: midnight of day 0, midnight of day 1, and a
\* time of day 1 with a non-zero microsecond field
Times == { [day |-> 0, sec |-> 0, us |-> 0],
           [day |-> 1, sec |-> 0, us |-> 0],
           [day |-> 1, sec |-> 43200, us |-> 1] }

\* nodeinfo documents: one without node_id, a flat interface list, a
\* nested bat0 list only, and a second node reporting address A as well
NodeinfoDocs ==
    { [network |-> [mesh_interfaces |-> {"A"}]],
      [node_id |-> "n1", network |-> [mesh_interfaces |-> {"A"}]],
      [node_id |-> "n1",
       network |-> [mesh |-> [bat0 |-> [interfaces |-> [tunnel |-> {"C"}]]]]],
      [node_id |-> "n2",
       network |-> [mesh_interfaces |-> {"A"},
                    mesh |-> [bat0 |-> [interfaces |-> [wireless |-> {"B"}]]]]] }

\* a peer's status: None, a dict with the given keys, or a number
StatusNone == [t |-> "none"]
StatusDict(keys) == [t |-> "dict", keys |-> keys]
StatusInt == [t |-> "int"]

\* the peer-group tree of the uplink example, after a peer without status:
\* one established peer, and a nested group whose peer has an empty status
GroupExample ==
    [peers |-> << <<"p0", StatusNone>>, <<"p1", StatusDict({"established"})>> >>,
     groups |-> << [peers |-> << <<"p2", StatusDict({})>> >>] >>]

\* statistics documents: without node_id; complete with an uplink; with a
\* clients entry lacking total and a memory total of 0; with a peer whose
\* status is a number; with an established peer in a group followed by a
\* group that has no peers; with an empty tree
StatDocs ==
    { [clients |-> [total |-> 9]],
      [node_id |-> "n1", clients |-> [total |-> 5], uptime |-> 1, loadavg |-> 1,
       memory |-> [free |-> 1, buffers |-> 1, cached |-> 1, total |-> 10],
       rootfs_usage |-> 1, traffic |-> 1,
       mesh_vpn |-> [groups |-> <<GroupExample>>]],
      [node_id |-> "n1", clients |-> [wifi |-> 3], uptime |-> 2,
       memory |-> [free |-> 1, buffers |-> 1, cached |-> 1, total |-> 0]],
      [node_id |-> "n2", clients |-> [total |-> 5],
       mesh_vpn |-> [groups |-> << [peers |-> << <<"p3", StatusInt>> >>] >>]],
      [node_id |-> "n2",
       mesh_vpn |-> [groups |->
           << [peers |-> << <<"p6", StatusDict({"established"})>> >>],
              [groups |-> <<>>] >>]],
      [node_id |-> "n2", uptime |-> 3, mesh_vpn |-> [groups |-> <<>>]] }

\* vis records: a primary; two secondary links with different primaries
\* sharing their secondary; a secondary without 'of'; a client-table
\* entry; a client-table entry without 'router'
VisRecords ==
    { [primary |-> "A"],
      [secondary |-> "B", of |-> "A"],
      [secondary |-> "B", of |-> "D"],
      [secondary |-> "C"],
      [label |-> "TT", router |-> "A", gateway |-> "D"],
      [label |-> "TT", gateway |-> "B"] }

\* the sequences handed to the importers
NodeinfoInputs == SeqUpTo(NodeinfoDocs, MaxDocs)
StatInputs == SeqUpTo(StatDocs, MaxDocs)
VisInputs == SeqUpTo(VisRecords, MaxDocs)
DaysInputs == 0..MaxDays

\* ------------------------------------------------------ build_mac_table
\* first try block: node['nodeinfo']['network']['mesh_interfaces']
FlatMacs(node) ==
    IF /\ Has(node, "nodeinfo")
       /\ Has(node.nodeinfo, "network")
       /\ Has(node.nodeinfo.network, "mesh_interfaces")
    THEN node.nodeinfo.network.mesh_interfaces
    ELSE {}

\* second try block: every address of every interface type of every
\* upper interface under node['nodeinfo']['network']['mesh'] (each upper
\* interface of the modelled documents carries 'interfaces')
MeshMacs(node) ==
    IF /\ Has(node, "nodeinfo")
       /\ Has(node.nodeinfo, "network")
       /\ Has(node.nodeinfo.network, "mesh")
    THEN LET mesh == node.nodeinfo.network.mesh
         IN  UNION { UNION { mesh[u].interfaces[t] : t \in DOMAIN mesh[u].interfaces }
                     : u \in DOMAIN mesh }
    ELSE {}

\* mutant of AddMacs: an address already in the table keeps its node
AddMacs_FirstWins(macs, ms, id) ==
    [a \in DOMAIN macs \cup ms |-> IF a \in DOMAIN macs THEN macs[a] ELSE id]

\* macs[mac] = node_id for the macs of one node: a later node overwrites
AddMacs(macs, ms, id) ==
    [a \in DOMAIN macs \cup ms |-> IF a \in ms THEN id ELSE macs[a]]

RECURSIVE MacTableFrom(_, _, _)
MacTableFrom(ns, ord, macs) ==
    IF ord = <<>> THEN macs
    ELSE LET id == Head(ord)
         IN  MacTableFrom(ns, Tail(ord),
                          AddMacs(macs, FlatMacs(ns[id]) \cup MeshMacs(ns[id]), id))

build_mac_table(ns, ord) == MacTableFrom(ns, ord, EmptyDict)

\* ---------------------------------------------------------- mark_online
\* mutant of mark_online: firstseen is assigned, not defaulted
mark_online_Overwrite(node, now) ==
    LET a == SetKey(node, "lastseen", IsoFormat(now))
        b == SetKey(a, "firstseen", IsoFormat(now))
    IN  SetKey(b, "flags", SetKey(b.flags, "online", TRUE))

mark_online(node, now) ==
    LET a == SetKey(node, "lastseen", IsoFormat(now))
        b == SetDefault(a, "firstseen", IsoFormat(now))
    IN  SetKey(b, "flags", SetKey(b.flags, "online", TRUE))

\* ------------------------------------------------------ import_nodeinfo
\* mutant of ImportOneNodeinfo: the uplink flag of an existing record is
\* carried over
ImportOneNodeinfo_KeepUplink(ns, doc, now, assume_online) ==
    LET id == doc.node_id
        a  == IF Has(ns, id) THEN ns[id] ELSE [flags |-> EmptyDict]
        b  == SetKey(a, "nodeinfo", doc)
        c  == SetKey(b, "flags", SetKey(b.flags, "online", FALSE))
        d  == SetKey(c, "flags", SetDefault(c.flags, "uplink", FALSE))
    IN  SetKey(ns, id, IF assume_online THEN mark_online(d, now) ELSE d)

\* the body of the loop for one document that carries node_id
ImportOneNodeinfo(ns, doc, now, assume_online) ==
    LET id == doc.node_id
        a  == IF Has(ns, id) THEN ns[id] ELSE [flags |-> EmptyDict]
        b  == SetKey(a, "nodeinfo", doc)
        c  == SetKey(b, "flags", SetKey(b.flags, "online", FALSE))
        d  == SetKey(c, "flags", SetKey(c.flags, "uplink", FALSE))
    IN  SetKey(ns, id, IF assume_online THEN mark_online(d, now) ELSE d)

RECURSIVE import_nodeinfo(_, _, _, _, _)
import_nodeinfo(ns, ord, nodeinfos, now, assume_online) ==
    IF nodeinfos = <<>> THEN [nodes |-> ns, order |-> ord, err |-> "none"]
    ELSE LET doc == Head(nodeinfos)
         IN  IF ~Has(doc, "node_id")
             THEN import_nodeinfo(ns, ord, Tail(nodeinfos), now, assume_online)
             ELSE import_nodeinfo(
                      ImportOneNodeinfo(ns, doc, now, assume_online),
                      IF Has(ns, doc.node_id) THEN ord
                      ELSE Append(ord, doc.node_id),
                      Tail(nodeinfos), now, assume_online)

\* ----------------------------------------------- import_mesh_ifs_vis_data
\* mesh_ifs[primary] |= {primary, secondary}: the groups as a sequence of
\* <<primary, addresses>> in the insertion order of the defaultdict
RECURSIVE AddToGroup(_, _, _)
AddToGroup(groups, primary, addrs) ==
    IF groups = <<>> THEN << <<primary, addrs>> >>
    ELSE IF Head(groups)[1] = primary
         THEN << <<primary, Head(groups)[2] \cup addrs>> >> \o Tail(groups)
         ELSE <<Head(groups)>> \o AddToGroup(Tail(groups), primary, addrs)

\* the first loop; line['of'] raises KeyError on a record with 'secondary'
\* and no 'of'
RECURSIVE MeshIfGroups(_, _)
MeshIfGroups(vis_data, groups) ==
    IF vis_data = <<>> THEN [err |-> "none", val |-> groups]
    ELSE LET line == Head(vis_data)
         IN  IF ~Has(line, "secondary") THEN MeshIfGroups(Tail(vis_data), groups)
             ELSE IF ~Has(line, "of") THEN [err |-> "KeyError", val |-> groups]
             ELSE MeshIfGroups(Tail(vis_data),
                               AddToGroup(groups, line.of, {line.of, line.secondary}))

\* node['nodeinfo']['network']['mesh']['bat0']['interfaces'][type]
Bat0Macs(node, type) ==
    IF /\ Has(node, "nodeinfo")
       /\ Has(node.nodeinfo, "network")
       /\ Has(node.nodeinfo.network, "mesh")
       /\ Has(node.nodeinfo.network.mesh, "bat0")
       /\ Has(node.nodeinfo.network.mesh.bat0, "interfaces")
       /\ Has(node.nodeinfo.network.mesh.bat0.interfaces, type)
    THEN node.nodeinfo.network.mesh.bat0.interfaces[type]
    ELSE {}

\* the addresses the node reported itself: the four try blocks
KnownIfs(node) ==
    FlatMacs(node) \cup Bat0Macs(node, "wireless") \cup Bat0Macs(node, "tunnel")
        \cup Bat0Macs(node, "other")

\* the body of the second loop for one resolved group
UpdateMeshIfs(node, addrs) ==
    SetKey(node, "nodeinfo",
        SetKey(node.nodeinfo, "network",
            SetKey(node.nodeinfo.network, "mesh_interfaces",
                   KnownIfs(node) \cup addrs)))

\* if_to_node takes the first address of the group that is in macs; a set
\* is iterated in no defined order, so every such address may be the first.
\* The result is the set of collections the loop can end with.
RECURSIVE ApplyGroups(_, _, _)
ApplyGroups(ns, macs, groups) ==
    IF groups = <<>> THEN {ns}
    ELSE LET addrs == Head(groups)[2]
             found == addrs \cap DOMAIN macs
         IN  IF found = {} THEN ApplyGroups(ns, macs, Tail(groups))
             ELSE UNION { ApplyGroups(
                              SetKey(ns, macs[a], UpdateMeshIfs(ns[macs[a]], addrs)),
                              macs, Tail(groups))
                          : a \in found }

\* the set of results import_mesh_ifs_vis_data can produce
import_mesh_ifs_vis_data(ns, ord, vis_data) ==
    LET macs == build_mac_table(ns, ord)
        g    == MeshIfGroups(vis_data, <<>>)
    IN  IF g.err # "none" THEN {[nodes |-> ns, order |-> ord, err |-> g.err]}
        ELSE { [nodes |-> n, order |-> ord, err |-> "none"]
               : n \in ApplyGroups(ns, macs, g.val) }

\* ------------------------------------------------- import_vis_clientcount
\* the node ids of the 'TT' records whose router is in macs, in order;
\* d['router'] raises KeyError on a 'TT' record without 'router'
RECURSIVE TTRouters(_, _)
TTRouters(vis_data, macs) ==
    IF vis_data = <<>> THEN [err |-> "none", val |-> <<>>]
    ELSE LET d == Head(vis_data)
         IN  IF ~(Has(d, "label") /\ d.label = "TT") THEN TTRouters(Tail(vis_data), macs)
             ELSE IF ~Has(d, "router") THEN [err |-> "KeyError", val |-> <<>>]
             ELSE LET rest == TTRouters(Tail(vis_data), macs)
                  IN  IF d.router \in DOMAIN macs
                      THEN [err |-> rest.err, val |-> <<macs[d.router]>> \o rest.val]
                      ELSE rest

\* Counter(data)[id]
Count(data, id) == Cardinality({i \in 1..Len(data) : data[i] = id})

\* the keys of Counter(data) in the order of their first occurrence
RECURSIVE CounterKeys(_)
CounterKeys(data) ==
    IF data = <<>> THEN <<>>
    ELSE <<Head(data)>> \o CounterKeys(Without(Tail(data), Head(data)))

\* mutant of SetClientCount: the count is assigned, not defaulted
SetClientCount_Overwrite(statistics, clientcount) ==
    SetKey(statistics, "clients", clientcount)

\* nodes[node_id]['statistics'].setdefault('clients', clientcount)
SetClientCount(statistics, clientcount) ==
    SetDefault(statistics, "clients", clientcount)

\* the final loop; nodes[node_id]['statistics'] raises KeyError on a node
\* without statistics, after the nodes before it were written
RECURSIVE SetClientCounts(_, _, _, _)
SetClientCounts(ns, ord, keys, data) ==
    IF keys = <<>> THEN [nodes |-> ns, order |-> ord, err |-> "none"]
    ELSE LET id == Head(keys)
         IN  IF ~Has(ns[id], "statistics")
             THEN [nodes |-> ns, order |-> ord, err |-> "KeyError"]
             ELSE SetClientCounts(
                      SetKey(ns, id,
                          SetKey(ns[id], "statistics",
                              SetClientCount(ns[id].statistics, Count(data, id)))),
                      ord, Tail(keys), data)

import_vis_clientcount(ns, ord, vis_data) ==
    LET r == TTRouters(vis_data, build_mac_table(ns, ord))
    IN  IF r.err # "none" THEN [nodes |-> ns, order |-> ord, err |-> r.err]
        ELSE SetClientCounts(ns, ord, CounterKeys(r.val), r.val)

\* --------------------------------------------------- mark_vis_data_online
\* the if / elif / elif chain: at most one address of a record is taken
OnlineAddrs(line) ==
    IF Has(line, "primary") THEN {line.primary}
    ELSE IF Has(line, "secondary") THEN {line.secondary}
    ELSE IF Has(line, "gateway") THEN {line.gateway}
    ELSE {}

\* mark_online is applied once per address of online that is in macs; with
\* one value of now a second application to the same node changes nothing
mark_vis_data_online(ns, ord, vis_data, now) ==
    LET macs   == build_mac_table(ns, ord)
        online == UNION {OnlineAddrs(vis_data[i]) : i \in 1..Len(vis_data)}
        marked == {macs[mac] : mac \in online \cap DOMAIN macs}
    IN  [nodes |-> [id \in DOMAIN ns |->
                       IF id \in marked THEN mark_online(ns[id], now) ELSE ns[id]],
         order |-> ord, err |-> "none"]

\* ------------------------------------------------------------- pruning
\* mutant of ToPrune: delta > days
ToPrune_Strict(ns, now, days) ==
    { id \in DOMAIN ns :
        \/ ~Has(ns[id], "lastseen")
        \/ DeltaDays(now, Strptime(ns[id].lastseen)) > days }

\* the prune list of prune_nodes
ToPrune(ns, now, days) ==
    { id \in DOMAIN ns :
        \/ ~Has(ns[id], "lastseen")
        \/ DeltaDays(now, Strptime(ns[id].lastseen)) >= days }

RECURSIVE DelAll(_, _)
DelAll(ord, ids) ==
    IF ord = <<>> THEN <<>>
    ELSE IF Head(ord) \in ids THEN DelAll(Tail(ord), ids)
    ELSE <<Head(ord)>> \o DelAll(Tail(ord), ids)

\* strptime raises inside the first loop, before anything is deleted
prune_nodes(ns, ord, now, days) ==
    IF \E id \in DOMAIN ns :
           Has(ns[id], "lastseen") /\ ~StrptimeOk(ns[id].lastseen)
    THEN [nodes |-> ns, order |-> ord, err |-> "ValueError"]
    ELSE LET prune == ToPrune(ns, now, days)
         IN  [nodes |-> [id \in DOMAIN ns \ prune |-> ns[id]],
              order |-> DelAll(ord, prune),
              err   |-> "none"]

prune_node(ns, ord, nodeid) ==
    IF Has(ns, nodeid)
    THEN [nodes |-> DelKey(ns, nodeid), order |-> Without(ord, nodeid),
          err |-> "none"]
    ELSE [nodes |-> ns, order |-> ord, err |-> "none"]

\* ---------------------------------------------------- reset_statistics
reset_statistics(ns, ord) ==
    [nodes |-> [id \in DOMAIN ns |-> SetKey(ns[id], "statistics", [clients |-> 0])],
     order |-> ord, err |-> "none"]

\* ----------------------------------------------------- uplink derivation
\* truth value of a status: None and the empty dict are false
Truthy(st) == IF st.t = "dict" THEN st.keys # {} ELSE st.t = "int"

\* check_uplink: group['peers'] is a sequence of <<peer, status>> in dict
\* order; '"established" in status' raises TypeError on a number
RECURSIVE CheckPeers(_, _)
CheckPeers(peers, acc) ==
    IF peers = <<>> THEN [err |-> "none", val |-> acc]
    ELSE LET peer == Head(peers)[1]
             st   == Head(peers)[2]
         IN  IF ~Truthy(st) THEN CheckPeers(Tail(peers), acc)
             ELSE IF st.t # "dict" THEN [err |-> "TypeError", val |-> acc]
             ELSE IF "established" \in st.keys
                  THEN CheckPeers(Tail(peers), Append(acc, peer))
                  ELSE CheckPeers(Tail(peers), acc)

check_uplink(group) ==
    IF ~Has(group, "peers") THEN [err |-> "KeyError", val |-> <<>>]
    ELSE CheckPeers(group.peers, <<>>)

\* check_uplink_recursive: groups.values() is a sequence of groups in dict
\* order; the first exception ends the walk
RECURSIVE check_uplink_recursive(_)
check_uplink_recursive(groups) ==
    IF groups = <<>> THEN [err |-> "none", val |-> <<>>]
    ELSE LET group == Head(groups)
             own   == check_uplink(group)
             sub   == IF own.err = "none" /\ Has(group, "groups")
                      THEN check_uplink_recursive(group.groups)
                      ELSE [err |-> own.err, val |-> <<>>]
             rest  == IF sub.err = "none"
                      THEN check_uplink_recursive(Tail(groups))
                      ELSE [err |-> sub.err, val |-> <<>>]
         IN  [err |-> rest.err, val |-> own.val \o sub.val \o rest.val]

\* mark_uplink: KeyError is swallowed wherever it is raised, also by the
\* write of vpn_peers after flags.uplink was set; TypeError is not caught
mark_uplink(node, stats) ==
    IF ~Has(stats, "mesh_vpn") \/ ~Has(stats.mesh_vpn, "groups")
    THEN [node |-> node, err |-> "none"]
    ELSE LET r == check_uplink_recursive(stats.mesh_vpn.groups)
         IN  IF r.err = "KeyError" THEN [node |-> node, err |-> "none"]
             ELSE IF r.err # "none" THEN [node |-> node, err |-> r.err]
             ELSE IF r.val = <<>> THEN [node |-> node, err |-> "none"]
             ELSE LET up == SetKey(node, "flags", SetKey(node.flags, "uplink", TRUE))
                  IN  IF Has(up, "statistics")
                      THEN [node |-> SetKey(up, "statistics",
                                            SetKey(up.statistics, "vpn_peers", r.val)),
                            err |-> "none"]
                      ELSE [node |-> up, err |-> "none"]

\* ----------------------------------------------------- import_statistics
\* reduce(dict.__getitem__, source, statistics) and the transform f; ok is
\* false where the code raises KeyError, TypeError or ZeroDivisionError.
\* memory_usage, 1 - (free + buffers + cached) / total, is kept as the
\* fraction <<numerator, denominator>>
Extract(stats, target) ==
    CASE target = "clients" ->
           IF Has(stats, "clients") /\ Has(stats.clients, "total")
           THEN [ok |-> TRUE, val |-> stats.clients.total]
           ELSE [ok |-> FALSE]
      [] target = "memory_usage" ->
           IF /\ Has(stats, "memory")
              /\ {"free", "buffers", "cached", "total"} \subseteq DOMAIN stats.memory
              /\ stats.memory.total # 0
           THEN LET m == stats.memory
                IN  [ok |-> TRUE,
                     val |-> <<m.total - (m.free + m.buffers + m.cached), m.total>>]
           ELSE [ok |-> FALSE]
      [] OTHER ->
           IF Has(stats, target) THEN [ok |-> TRUE, val |-> stats[target]]
           ELSE [ok |-> FALSE]

\* mutant of add: a failed extraction removes the field
add_UnsetOnFailure(node, stats, target) ==
    LET e == Extract(stats, target)
    IN  IF ~Has(node, "statistics") THEN node
        ELSE IF e.ok
             THEN SetKey(node, "statistics", SetKey(node.statistics, target, e.val))
             ELSE SetKey(node, "statistics", DelKey(node.statistics, target))

\* add(node, statistics, target, source, f): node['statistics'] is looked
\* up inside the try, so a node without statistics is skipped as well
add(node, stats, target) ==
    LET e == Extract(stats, target)
    IN  IF e.ok /\ Has(node, "statistics")
        THEN SetKey(node, "statistics", SetKey(node.statistics, target, e.val))
        ELSE node

Targets == <<"clients", "uptime", "loadavg", "memory_usage", "rootfs_usage", "traffic">>

RECURSIVE AddAll(_, _, _)
AddAll(node, stats, targets) ==
    IF targets = <<>> THEN node
    ELSE AddAll(add(node, stats, Head(targets)), stats, Tail(targets))

\* mutant of import_statistics: a document about an unknown node creates
\* its record
RECURSIVE import_statistics_Upsert(_, _, _)
import_statistics_Upsert(ns, ord, stats) ==
    IF stats = <<>> THEN [nodes |-> ns, order |-> ord, err |-> "none"]
    ELSE LET d == Head(stats)
         IN  IF ~Has(d, "node_id")
             THEN import_statistics_Upsert(ns, ord, Tail(stats))
             ELSE LET node == IF Has(ns, d.node_id) THEN ns[d.node_id]
                              ELSE [flags |-> [online |-> FALSE, uplink |-> FALSE]]
                      r == mark_uplink(AddAll(node, d, Targets), d)
                      after == SetKey(ns, d.node_id, r.node)
                      ord2 == IF Has(ns, d.node_id) THEN ord ELSE Append(ord, d.node_id)
                  IN  IF r.err # "none"
                      THEN [nodes |-> after, order |-> ord2, err |-> r.err]
                      ELSE import_statistics_Upsert(after, ord2, Tail(stats))

RECURSIVE import_statistics(_, _, _)
import_statistics(ns, ord, stats) ==
    IF stats = <<>> THEN [nodes |-> ns, order |-> ord, err |-> "none"]
    ELSE LET d == Head(stats)
         IN  IF ~Has(d, "node_id") \/ ~Has(ns, d.node_id)
             THEN import_statistics(ns, ord, Tail(stats))
             ELSE LET r == mark_uplink(AddAll(ns[d.node_id], d, Targets), d)
                      after == SetKey(ns, d.node_id, r.node)
                  IN  IF r.err # "none"
                      THEN [nodes |-> after, order |-> ord, err |-> r.err]
                      ELSE import_statistics(after, ord, Tail(stats))

\* ---------------------------------------------------------- the machine
Init ==
    /\ nodes = EmptyDict
    /\ order = <<>>
    /\ last = [op |-> "init", err |-> "none"]
    /\ steps = 0

\* the collection after a call; last holds the operation called, the
\* exception it ended with and, for the pruning calls, their arguments
Result(r, call) ==
    /\ nodes' = r.nodes
    /\ order' = r.order
    /\ last' = SetKey(call, "err", r.err)
    /\ steps' = steps + 1

ImportNodeinfo ==
    /\ steps < MaxSteps
    /\ \E nodeinfos \in NodeinfoInputs, now \in Times,
          assume_online \in BOOLEAN :
          Result(import_nodeinfo(nodes, order, nodeinfos, now, assume_online),
                 [op |-> "import_nodeinfo"])

PruneNodes ==
    /\ steps < MaxSteps
    /\ \E now \in Times, days \in DaysInputs :
          Result(prune_nodes(nodes, order, now, days),
                 [op |-> "prune_nodes", now |-> now, days |-> days])

PruneNode ==
    /\ steps < MaxSteps
    /\ \E nodeid \in NodeIds :
          Result(prune_node(nodes, order, nodeid),
                 [op |-> "prune_node", nodeid |-> nodeid])

ResetStatistics ==
    /\ steps < MaxSteps
    /\ Result(reset_statistics(nodes, order), [op |-> "reset_statistics"])

ImportStatistics ==
    /\ steps < MaxSteps
    /\ \E stats \in StatInputs :
          Result(import_statistics(nodes, order, stats), [op |-> "import_statistics"])

ImportMeshIfsVisData ==
    /\ steps < MaxSteps
    /\ \E vis_data \in VisInputs :
          \E r \in import_mesh_ifs_vis_data(nodes, order, vis_data) :
             Result(r, [op |-> "import_mesh_ifs_vis_data"])

ImportVisClientcount ==
    /\ steps < MaxSteps
    /\ \E vis_data \in VisInputs :
          Result(import_vis_clientcount(nodes, order, vis_data),
                 [op |-> "import_vis_clientcount"])

MarkVisDataOnline ==
    /\ steps < MaxSteps
    /\ \E vis_data \in VisInputs, now \in Times :
          Result(mark_vis_data_online(nodes, order, vis_data, now),
                 [op |-> "mark_vis_data_online"])

Next ==
    \/ ImportNodeinfo
    \/ ResetStatistics
    \/ ImportStatistics
    \/ ImportMeshIfsVisData
    \/ ImportVisClientcount
    \/ MarkVisDataOnline
    \/ PruneNodes
    \/ PruneNode

Spec == Init /\ [][Next]_vars

\* ======================================================== the claims
Importers == {"import_nodeinfo", "import_statistics", "import_mesh_ifs_vis_data",
              "import_vis_clientcount", "mark_vis_data_online"}

Online(node) == Has(node.flags, "online") /\ node.flags.online
Uplink(node) == Has(node.flags, "uplink") /\ node.flags.uplink

\* the node reports the address in either of its self-reported shapes
Reports(node, a) == a \in FlatMacs(node) \cup MeshMacs(node)

\* position of a node in the iteration order of the collection
Pos(id) == CHOOSE i \in 1..Len(order) : order[i] = id

\* the address resolves to the node: the node reports it and no node
\* later in iteration order does
ResolvesTo(a, id) ==
    /\ id \in DOMAIN nodes
    /\ Reports(nodes[id], a)
    /\ \A j \in DOMAIN nodes : Reports(nodes[j], a) => Pos(j) <= Pos(id)

\* a call can still be made in this run: the claims about the result of a
\* call are stated for every call the machine makes
CanCall == steps < MaxSteps

\* ---------------------------------------------------------------- C1
\* the effect of each operation on the set of node identifiers
C1_Calls ==
    /\ \A nodeinfos \in NodeinfoInputs, now \in Times, assume_online \in BOOLEAN :
          DOMAIN nodes \subseteq
              DOMAIN import_nodeinfo(nodes, order, nodeinfos, now, assume_online).nodes
    /\ \A nodeid \in NodeIds :
          DOMAIN prune_node(nodes, order, nodeid).nodes \subseteq DOMAIN nodes
    /\ \A now \in Times, days \in DaysInputs :
          DOMAIN prune_nodes(nodes, order, now, days).nodes \subseteq DOMAIN nodes
    /\ DOMAIN reset_statistics(nodes, order).nodes = DOMAIN nodes
    /\ \A stats \in StatInputs :
          DOMAIN import_statistics(nodes, order, stats).nodes = DOMAIN nodes
    /\ \A vis_data \in VisInputs :
          /\ \A r \in import_mesh_ifs_vis_data(nodes, order, vis_data) :
                DOMAIN r.nodes = DOMAIN nodes
          /\ DOMAIN import_vis_clientcount(nodes, order, vis_data).nodes = DOMAIN nodes
          /\ \A now \in Times :
                DOMAIN mark_vis_data_online(nodes, order, vis_data, now).nodes
                    = DOMAIN nodes

\* C1: whatever the inputs, import_nodeinfo only adds node identifiers,
\* prune_node and prune_nodes only remove identifiers, every other operation
\* leaves the set of identifiers as it is, and every record has 'flags'.
C1_Lifecycle ==
    /\ \A id \in DOMAIN nodes : Has(nodes[id], "flags")
    /\ CanCall => C1_Calls

\* only n1 exists after an importer other than import_nodeinfo ran, whose
\* inputs name n2 and addresses nobody reports
C1_Witness ==
    /\ DOMAIN nodes = {"n1"}
    /\ last.op \in Importers \ {"import_nodeinfo"}
    /\ Has(nodes["n1"], "flags")

\* ---------------------------------------------------------------- C2
\* the record a document leaves behind in the result r of import_nodeinfo
C2_Imported(r, doc, now, assume_online) ==
    /\ Has(r.nodes, doc.node_id)
    /\ LET node == r.nodes[doc.node_id]
       IN  /\ node.nodeinfo = doc
           /\ node.flags.uplink = FALSE
           /\ ~assume_online => node.flags.online = FALSE
           /\ assume_online =>
                 node.flags.online = TRUE /\ node.lastseen = IsoFormat(now)

\* the records no document of the call names are the records of before
C2_OthersUntouched(r, nodeinfos) ==
    \A id \in DOMAIN r.nodes :
        (\A i \in 1..Len(nodeinfos) :
            ~(Has(nodeinfos[i], "node_id") /\ nodeinfos[i].node_id = id))
        => Has(nodes, id) /\ r.nodes[id] = nodes[id]

\* C2 as stated: after import_nodeinfo every document that carries a node
\* identifier is the nodeinfo of its record, whose flags are reset (online
\* true and lastseen = now under assume_online); other records are untouched.
C2_Original ==
    CanCall =>
    \A nodeinfos \in NodeinfoInputs, now \in Times, assume_online \in BOOLEAN :
        LET r == import_nodeinfo(nodes, order, nodeinfos, now, assume_online)
        IN  /\ \A i \in 1..Len(nodeinfos) :
                  Has(nodeinfos[i], "node_id")
                  => C2_Imported(r, nodeinfos[i], now, assume_online)
            /\ C2_OthersUntouched(r, nodeinfos)

\* C2 amended: the same for the last document of the call that carries a
\* given identifier; an earlier document with that identifier is overwritten.
C2_LastDocumentWins ==
    CanCall =>
    \A nodeinfos \in NodeinfoInputs, now \in Times, assume_online \in BOOLEAN :
        LET r == import_nodeinfo(nodes, order, nodeinfos, now, assume_online)
        IN  /\ r.err = "none"
            /\ \A i \in 1..Len(nodeinfos) :
                  (/\ Has(nodeinfos[i], "node_id")
                   /\ \A j \in (i + 1)..Len(nodeinfos) :
                         ~(Has(nodeinfos[j], "node_id")
                           /\ nodeinfos[j].node_id = nodeinfos[i].node_id))
                  => C2_Imported(r, nodeinfos[i], now, assume_online)
            /\ C2_OthersUntouched(r, nodeinfos)

\* import_nodeinfo ran on a record that had its uplink flag set (vpn_peers
\* is written only together with it) and reset the flag
C2_Witness ==
    /\ last.op = "import_nodeinfo"
    /\ \E id \in DOMAIN nodes :
          /\ Has(nodes[id], "statistics")
          /\ Has(nodes[id].statistics, "vpn_peers")
          /\ ~Uplink(nodes[id])
          /\ Online(nodes[id])

\* ---------------------------------------------------------------- C3
\* the time an isoformat text denotes
C3_TimeOf(text) ==
    [day |-> text[1], sec |-> text[2], us |-> IF Len(text) = 3 THEN text[3] ELSE 0]

\* whole days from b to a, truncated: the days of |a - b| with the sign of
\* a - b
C3_Earlier(a, b) ==
    \/ a.day < b.day
    \/ a.day = b.day /\ a.sec < b.sec
    \/ a.day = b.day /\ a.sec = b.sec /\ a.us < b.us

C3_AgeDays(now, seen) ==
    IF C3_Earlier(now, seen) THEN 0 - DeltaDays(seen, now) ELSE DeltaDays(now, seen)

C4_Original == last.op \in Importers => last.err = "none"

\* the part of C4 the code keeps: import_nodeinfo and mark_vis_data_online
\* raise nothing, and the other importers raise nothing but the KeyError of
\* a vis record or node lacking a key and the TypeError of a peer status
C4_ErrorsRaised ==
    /\ last.op \in {"import_nodeinfo", "mark_vis_data_online", "reset_statistics",
                    "prune_node", "init"} => last.err = "none"
    /\ last.op = "import_statistics" => last.err \in {"none", "TypeError"}
    /\ last.op \in {"import_mesh_ifs_vis_data", "import_vis_clientcount"}
          => last.err \in {"none", "KeyError"}
    /\ last.op = "prune_nodes" => last.err \in {"none", "ValueError"}

\* ---------------------------------------------------------------- C5
\* the peers of one group whose status is a non-empty dict with the
\* 'established' marker, in order
C5_IsEstablished(p) == p[2].t = "dict" /\ "established" \in p[2].keys

C5_GroupPeers(group) ==
    IF Has(group, "peers")
    THEN LET sel == SelectSeq(group.peers, C5_IsEstablished)
         IN  [i \in 1..Len(sel) |-> sel[i][1]]
    ELSE <<>>

\* the established peers of a peer-group tree, depth-first
RECURSIVE C5_Established(_)
C5_Established(groups) ==
    IF groups = <<>> THEN <<>>
    ELSE C5_GroupPeers(Head(groups))
         \o (IF Has(Head(groups), "groups")
             THEN C5_Established(Head(groups).groups) ELSE <<>>)
         \o C5_Established(Tail(groups))

\* the established peers of a statistics document
C5_DocPeers(d) ==
    IF Has(d, "mesh_vpn") /\ Has(d.mesh_vpn, "groups")
    THEN C5_Established(d.mesh_vpn.groups) ELSE <<>>

\* the documents of a call that are about the node
C5_DocsOf(stats, id) ==
    {i \in 1..Len(stats) : Has(stats[i], "node_id") /\ stats[i].node_id = id}

C5_VpnPeers(node) ==
    IF Has(node, "statistics") /\ Has(node.statistics, "vpn_peers")
    THEN <<node.statistics.vpn_peers>> ELSE <<>>

\* the call whose result is r sets no uplink flag
C5_NoRise(r) ==
    \A id \in DOMAIN nodes \cap DOMAIN r.nodes :
        Uplink(r.nodes[id]) => Uplink(nodes[id])

\* the call whose result is r clears no uplink flag
C5_NoFall(r) ==
    \A id \in DOMAIN nodes \cap DOMAIN r.nodes :
        Uplink(nodes[id]) => Uplink(r.nodes[id])

\* the uplink flag rises in import_statistics only and falls in
\* import_nodeinfo only
C5_OnlyThere ==
    /\ \A nodeinfos \in NodeinfoInputs, now \in Times, assume_online \in BOOLEAN :
          C5_NoRise(import_nodeinfo(nodes, order, nodeinfos, now, assume_online))
    /\ \A stats \in StatInputs : C5_NoFall(import_statistics(nodes, order, stats))
    /\ LET r == reset_statistics(nodes, order) IN C5_NoRise(r) /\ C5_NoFall(r)
    /\ \A nodeid \in NodeIds :
          LET r == prune_node(nodes, order, nodeid) IN C5_NoRise(r) /\ C5_NoFall(r)
    /\ \A now \in Times, days \in DaysInputs :
          LET r == prune_nodes(nodes, order, now, days)
          IN  C5_NoRise(r) /\ C5_NoFall(r)
    /\ \A vis_data \in VisInputs :
          /\ \A r \in import_mesh_ifs_vis_data(nodes, order, vis_data) :
                C5_NoRise(r) /\ C5_NoFall(r)
          /\ LET r == import_vis_clientcount(nodes, order, vis_data)
             IN  C5_NoRise(r) /\ C5_NoFall(r)
          /\ \A now \in Times :
                LET r == mark_vis_data_online(nodes, order, vis_data, now)
                IN  C5_NoRise(r) /\ C5_NoFall(r)

\* C5 as stated: the uplink flag rises in import_statistics only, exactly
\* when the peer-group tree of a document about the node yields established
\* peers, and vpn_peers is then that list; otherwise flag and vpn_peers stay;
\* the flag falls in import_nodeinfo only.
C5_Original ==
    CanCall =>
    /\ C5_OnlyThere
    /\ \A stats \in StatInputs :
          LET r == import_statistics(nodes, order, stats)
          IN  \A id \in DOMAIN nodes :
                LET yielding == {i \in C5_DocsOf(stats, id) : C5_DocPeers(stats[i]) # <<>>}
                IN  IF yielding # {}
                    THEN /\ Uplink(r.nodes[id])
                         /\ \E i \in yielding :
                               C5_VpnPeers(r.nodes[id]) = <<C5_DocPeers(stats[i])>>
                    ELSE /\ Uplink(r.nodes[id]) = Uplink(nodes[id])
                         /\ C5_VpnPeers(r.nodes[id]) = C5_VpnPeers(nodes[id])

\* what holds of the code: where the flag rises and falls; a risen flag or
\* a changed vpn_peers comes from a document about the node with established
\* peers; and a call that ends without error on trees all of whose groups
\* have 'peers' sets the flag of every such node, and vpn_peers where the
\* node has a statistics entry
C5_WellFormed(d) ==
    check_uplink_recursive(
        IF Has(d, "mesh_vpn") /\ Has(d.mesh_vpn, "groups")
        THEN d.mesh_vpn.groups ELSE <<>>).err = "none"

C5_AsCoded ==
    CanCall =>
    /\ C5_OnlyThere
    /\ \A stats \in StatInputs :
          LET r == import_statistics(nodes, order, stats)
          IN  \A id \in DOMAIN nodes :
                LET yielding == {i \in C5_DocsOf(stats, id) : C5_DocPeers(stats[i]) # <<>>}
                IN  /\ (Uplink(r.nodes[id]) /\ ~Uplink(nodes[id])) => yielding # {}
                    /\ C5_VpnPeers(r.nodes[id]) # C5_VpnPeers(nodes[id]) =>
                          \E i \in yielding :
                              C5_VpnPeers(r.nodes[id]) = <<C5_DocPeers(stats[i])>>
                    /\ (/\ r.err = "none"
                        /\ \E i \in yielding : C5_WellFormed(stats[i]))
                       => /\ Uplink(r.nodes[id])
                          /\ Has(nodes[id], "statistics") =>
                                C5_VpnPeers(r.nodes[id]) # <<>>

\* ---------------------------------------------------------------- C6
\* firstseen, once written, stays as it is while the record lives, and it
\* is first written by an online marking, which writes lastseen with it
C6_Step ==
    /\ \A id \in DOMAIN nodes \cap DOMAIN nodes' :
          /\ Has(nodes[id], "firstseen") =>
                /\ Has(nodes'[id], "firstseen")
                /\ nodes'[id].firstseen = nodes[id].firstseen
          /\ (~Has(nodes[id], "firstseen") /\ Has(nodes'[id], "firstseen")) =>
                /\ last'.op \in {"import_nodeinfo", "mark_vis_data_online"}
                /\ Online(nodes'[id])
                /\ nodes'[id].firstseen = nodes'[id].lastseen
    /\ \A id \in DOMAIN nodes' \ DOMAIN nodes :
          Has(nodes'[id], "firstseen") =>
             /\ last'.op = "import_nodeinfo"
             /\ Online(nodes'[id])
             /\ nodes'[id].firstseen = nodes'[id].lastseen

\* every record an online marking touches is online with lastseen = now
C6_Marking ==
    /\ \A nodeinfos \in NodeinfoInputs, now \in Times :
          LET r == import_nodeinfo(nodes, order, nodeinfos, now, TRUE)
          IN  \A i \in 1..Len(nodeinfos) :
                Has(nodeinfos[i], "node_id") =>
                   /\ Online(r.nodes[nodeinfos[i].node_id])
                   /\ r.nodes[nodeinfos[i].node_id].lastseen = IsoFormat(now)
    /\ \A vis_data \in VisInputs, now \in Times :
          LET r == mark_vis_data_online(nodes, order, vis_data, now)
          IN  \A id \in DOMAIN nodes :
                r.nodes[id] # nodes[id] =>
                   /\ Online(r.nodes[id])
                   /\ r.nodes[id].lastseen = IsoFormat(now)

\* an online record has lastseen and firstseen
C6_State ==
    \A id \in DOMAIN nodes :
        Online(nodes[id]) => Has(nodes[id], "lastseen") /\ Has(nodes[id], "firstseen")

\* C6: firstseen is written by the first online marking of a record and
\* never changes while the record lives; every online marking sets lastseen
\* to now and flags.online; an online record has lastseen and firstseen.
C6_FirstSeen ==
    /\ [](C6_State /\ (CanCall => C6_Marking))
    /\ [][C6_Step]_vars

\* a record marked online twice, at different times: firstseen is the
\* earlier time, lastseen the later one
C6_Witness ==
    \E id \in DOMAIN nodes :
        /\ Online(nodes[id])
        /\ nodes[id].firstseen = <<0, 0>>
        /\ nodes[id].lastseen = <<1, 0>>

\* ---------------------------------------------------------------- C7
C7_HasClients(node) == Has(node, "statistics") /\ Has(node.statistics, "clients")

\* the call whose result is r keeps statistics.clients where it was present
C7_Keeps(r) ==
    \A id \in DOMAIN nodes :
        C7_HasClients(nodes[id]) => C7_HasClients(r.nodes[id])

\* C7: reset_statistics leaves every node with statistics = {clients: 0},
\* and import_statistics, import_mesh_ifs_vis_data, import_vis_clientcount
\* and mark_vis_data_online keep statistics.clients present, whatever their
\* input.
C7_ClientsPresent ==
    CanCall =>
    /\ LET r == reset_statistics(nodes, order)
       IN  /\ DOMAIN r.nodes = DOMAIN nodes
           /\ \A id \in DOMAIN nodes : r.nodes[id].statistics = [clients |-> 0]
    /\ \A stats \in StatInputs : C7_Keeps(import_statistics(nodes, order, stats))
    /\ \A vis_data \in VisInputs :
          /\ \A r \in import_mesh_ifs_vis_data(nodes, order, vis_data) : C7_Keeps(r)
          /\ C7_Keeps(import_vis_clientcount(nodes, order, vis_data))
          /\ \A now \in Times :
                C7_Keeps(mark_vis_data_online(nodes, order, vis_data, now))

\* the document whose clients entry has no total was imported after a
\* reset: its uptime arrived, clients is still the 0 of the reset
C7_Witness ==
    /\ last.op = "import_statistics"
    /\ \E id \in DOMAIN nodes :
          /\ C7_HasClients(nodes[id])
          /\ nodes[id].statistics.clients = 0
          /\ Has(nodes[id].statistics, "uptime")
          /\ nodes[id].statistics.uptime = 2
          /\ ~Has(nodes[id].statistics, "memory_usage")

\* ---------------------------------------------------------------- C8
\* the number of 'TT' records whose router resolves to the node
C8_Count(vis_data, id) ==
    Cardinality({i \in 1..Len(vis_data) :
                    /\ Has(vis_data[i], "label") /\ vis_data[i].label = "TT"
                    /\ Has(vis_data[i], "router")
                    /\ ResolvesTo(vis_data[i].router, id)})

\* C8: import_vis_clientcount never changes a statistics.clients that is
\* set; all it may change is to set an absent statistics.clients to the
\* number of 'TT' records whose router resolves to the node.
C8_FirstWriterWins ==
    CanCall =>
    \A vis_data \in VisInputs :
        LET r == import_vis_clientcount(nodes, order, vis_data)
        IN  /\ DOMAIN r.nodes = DOMAIN nodes
            /\ \A id \in DOMAIN nodes :
                  \/ r.nodes[id] = nodes[id]
                  \/ /\ Has(nodes[id], "statistics")
                     /\ ~Has(nodes[id].statistics, "clients")
                     /\ r.nodes[id] =
                           SetKey(nodes[id], "statistics",
                                  SetKey(nodes[id].statistics, "clients",
                                         C8_Count(vis_data, id)))

\* import_vis_clientcount ran without error on a node whose clients the
\* statistics importer had set to 5, with a 'TT' record for that node among
\* the inputs that leave the collection as it is
C8_Witness ==
    /\ last.op = "import_vis_clientcount"
    /\ last.err = "none"
    /\ \E id \in DOMAIN nodes :
          /\ C7_HasClients(nodes[id])
          /\ nodes[id].statistics.clients = 5
          /\ \E vis_data \in VisInputs :
                /\ C8_Count(vis_data, id) = 1
                /\ import_vis_clientcount(nodes, order, vis_data).err = "none"

\* ---------------------------------------------------------------- C9
\* the primaries stated by the records that carry a secondary link
C9_Primaries(vis_data) ==
    {vis_data[i].of : i \in {j \in 1..Len(vis_data) :
                                 Has(vis_data[j], "secondary") /\ Has(vis_data[j], "of")}}

\* the group of a primary: the primary and the secondaries stated with it
C9_Group(vis_data, p) ==
    {p} \cup {vis_data[i].secondary :
                 i \in {j \in 1..Len(vis_data) :
                           /\ Has(vis_data[j], "secondary")
                           /\ Has(vis_data[j], "of")
                           /\ vis_data[j].of = p}}

\* the nodes some address of the group resolves to
C9_Candidates(vis_data, p) ==
    {id \in DOMAIN nodes : \E a \in C9_Group(vis_data, p) : ResolvesTo(a, id)}

\* the record with its interface-address list replaced
C9_Replaced(node, ifs) ==
    SetKey(node, "nodeinfo",
        SetKey(node.nodeinfo, "network",
            SetKey(node.nodeinfo.network, "mesh_interfaces", ifs)))

\* every group with a resolving address went to one of the nodes it
\* resolves to, whose list is now its known addresses and the groups it got;
\* the other nodes are as before
C9_Reconciled(vis_data, r) ==
    LET live == {p \in C9_Primaries(vis_data) : C9_Candidates(vis_data, p) # {}}
    IN  /\ DOMAIN r.nodes = DOMAIN nodes
        /\ \E f \in [live -> DOMAIN nodes] :
              /\ \A p \in live : f[p] \in C9_Candidates(vis_data, p)
              /\ \A id \in DOMAIN nodes :
                    r.nodes[id] =
                       IF \E p \in live : f[p] = id
                       THEN C9_Replaced(nodes[id],
                                KnownIfs(nodes[id]) \cup
                                UNION {C9_Group(vis_data, p) : p \in {q \in live : f[q] = id}})
                       ELSE nodes[id]

\* C9 as stated: import_mesh_ifs_vis_data groups by stated primary and gives
\* every group with a resolving address to a node it resolves to, replacing
\* that node's list by the union; other nodes are unchanged.
C9_Original ==
    CanCall =>
    \A vis_data \in VisInputs :
        \A r \in import_mesh_ifs_vis_data(nodes, order, vis_data) :
            C9_Reconciled(vis_data, r)

\* what holds of the code: the same for every call that ends without error,
\* and a call that raises (a secondary record without 'of') changes nothing
C9_AsCoded ==
    CanCall =>
    \A vis_data \in VisInputs :
        \A r \in import_mesh_ifs_vis_data(nodes, order, vis_data) :
            IF r.err = "none" THEN C9_Reconciled(vis_data, r)
            ELSE r.nodes = nodes

\* --------------------------------------------------------------- C10
\* the address a vis record marks as active: its primary, secondary or
\* gateway field
C10_Active(line) ==
    {line[k] : k \in {"primary", "secondary", "gateway"} \cap DOMAIN line}

\* a record after an online marking at time now
C10_Marked(node, now) ==
    [k \in DOMAIN node \cup {"lastseen", "firstseen"} |->
        CASE k = "lastseen" -> IsoFormat(now)
          [] k = "firstseen" ->
                IF Has(node, "firstseen") THEN node.firstseen ELSE IsoFormat(now)
          [] k = "flags" -> [online |-> TRUE, uplink |-> node.flags.uplink]
          [] OTHER -> node[k]]

\* C10: mark_vis_data_online marks exactly the nodes some active address
\* resolves to, the node later in iteration order winning an address two
\* nodes report; it raises nothing and leaves every other record as it is.
C10_OnlineExactly ==
    CanCall =>
    \A vis_data \in VisInputs, now \in Times :
        LET r == mark_vis_data_online(nodes, order, vis_data, now)
            active == UNION {C10_Active(vis_data[i]) : i \in 1..Len(vis_data)}
        IN  /\ r.err = "none"
            /\ r.order = order
            /\ DOMAIN r.nodes = DOMAIN nodes
            /\ \A id \in DOMAIN nodes :
                  r.nodes[id] = IF \E a \in active : ResolvesTo(a, id)
                                THEN C10_Marked(nodes[id], now)
                                ELSE nodes[id]

\* n1 and n2 both report A; the marking took n2, the later one, and left n1
C10_Witness ==
    /\ last.op = "mark_vis_data_online"
    /\ order = <<"n1", "n2">>
    /\ Reports(nodes["n1"], "A") /\ Reports(nodes["n2"], "A")
    /\ ~Reports(nodes["n1"], "B")
    /\ Online(nodes["n2"]) /\ ~Online(nodes["n1"])
    /\ ~Has(nodes["n1"], "lastseen")

====
